---- MODULE Spec2Model ----
(***************************************************************************)
(* Model of the namelist document classes of namelistgui/namelists.py:     *)
(* Variable, Namelist and InputFile (a Fortran namelist input file that is *)
(* built by hand, written to disk and read back), and of the quantity      *)
(* catalog of namelistgui/diagnostic_outputs.py: OutputQuantities, which   *)
(* parses the quantity codes of a base file and sorts them by the files    *)
(* that compute them, and _ensure_texable, which repairs LaTeX comments.   *)
(*                                                                         *)
(* A Python string is a sequence of one-character strings; a text file is  *)
(* one such sequence with "\n" characters in it.                           *)
(***************************************************************************)
EXTENDS Integers, Sequences, FiniteSets, TLC

\* ------------------------------------------------------------------ bounds
\* most namelists a document built by hand holds
MaxGroups == 2
\* most variables one namelist holds
MaxVars == 2
\* most lines of an input file that is read from disk
MaxLines == 3

\* ------------------------------------------------- Python string methods
\* characters str.strip() removes
IsSpace(c) == c \in {" ", "\t", "\n"}

\* str.lower() on one character, for the letters the model uses
LowerChar(c) ==
    CASE c = "A" -> "a"
      [] c = "B" -> "b"
      [] c = "D" -> "d"
      [] c = "F" -> "f"
      [] c = "G" -> "g"
      [] c = "H" -> "h"
      [] c = "I" -> "i"
      [] c = "X" -> "x"
      [] c = "Y" -> "y"
      [] c = "Z" -> "z"
      [] OTHER -> c

\* str.lower()
lower(s) == [i \in 1..Len(s) |-> LowerChar(s[i])]

RECURSIVE lstrip(_)
\* str.lstrip()
lstrip(s) ==
    IF s = <<>> THEN <<>>
    ELSE IF IsSpace(Head(s)) THEN lstrip(Tail(s)) ELSE s

RECURSIVE rstrip(_)
\* str.rstrip()
rstrip(s) ==
    IF s = <<>> THEN <<>>
    ELSE IF IsSpace(s[Len(s)]) THEN rstrip(SubSeq(s, 1, Len(s) - 1)) ELSE s

\* str.strip()
strip(s) == rstrip(lstrip(s))

\* str.startswith(c) for a one-character prefix
startswith(s, c) == Len(s) >= 1 /\ s[1] = c

\* c in s
contains(s, c) == \E i \in 1..Len(s) : s[i] = c

\* str.find(c): the 0-based index of the first c, -1 when there is none
find(s, c) ==
    IF contains(s, c)
    THEN (CHOOSE i \in 1..Len(s) : s[i] = c /\ \A j \in 1..(i - 1) : s[j] # c) - 1
    ELSE -1

\* s[:n]
prefix(s, n) == SubSeq(s, 1, n)

\* s[n:]
suffix(s, n) == SubSeq(s, n + 1, Len(s))

RECURSIVE split(_, _)
\* str.split(c): every piece between occurrences of c, empty pieces kept
split(s, c) ==
    IF ~contains(s, c) THEN <<s>>
    ELSE <<prefix(s, find(s, c))>> \o split(suffix(s, find(s, c) + 1), c)

\* a split at every c, where split(c, 1) splits once
split1_every(s, c) == split(s, c)

\* str.split(c, 1): at most one split, at the first c
split1(s, c) ==
    IF ~contains(s, c) THEN <<s>>
    ELSE <<prefix(s, find(s, c)), suffix(s, find(s, c) + 1)>>

RECURSIVE join(_, _)
\* sep.join(list)
join(sep, list) ==
    IF list = <<>> THEN <<>>
    ELSE IF Len(list) = 1 THEN list[1]
    ELSE list[1] \o sep \o join(sep, Tail(list))

RECURSIVE readlines(_)
\* iteration over a text file: the lines, each with its "\n" when it has one
readlines(text) ==
    IF text = <<>> THEN <<>>
    ELSE IF ~contains(text, "\n") THEN <<text>>
    ELSE <<prefix(text, find(text, "\n") + 1)>>
         \o readlines(suffix(text, find(text, "\n") + 1))

\* ---------------------------------------------------------- Python values
\* Python's None, where the code holds a string or None
None == <<"<None>">>

\* an argument that is not a list, as isinstance(x, list) tells
Scalar(x) == [islist |-> FALSE, v |-> x]

\* an argument that is a list
List(l) == [islist |-> TRUE, v |-> l]

\* --------------------------------------------------------- class Variable
\* Variable.__init__: the name is lower-cased, a non-list value is wrapped
Variable(name, value) ==
    [name  |-> lower(name),
     value |-> IF ~value.islist THEN <<value.v>> ELSE value.v]

\* Variable.write on the open file mf = [text, err]: the indent check, then
\* the entry "indent name = v0,v1,..." (value is never None here: no
\* operation of the module sets it to None)
Variable_write(var, mf, indent) ==
    IF strip(indent) # <<>>
    THEN [mf EXCEPT !.err = "ValueError"]
    ELSE [mf EXCEPT !.text =
            @ \o indent \o var.name \o <<" ", "=", " ">>
              \o join(<<",">>, var.value) \o <<"\n">>]

\* --------------------------------------------------------- class Namelist
\* Namelist.__init__
Namelist(name) == [name |-> lower(name), variables |-> <<>>]

\* [v.name for v in self.variables]
names_of(variables) == [i \in 1..Len(variables) |-> variables[i].name]

\* list.index(x): the 1-based place of the first x
index(list, x) ==
    CHOOSE i \in 1..Len(list) : list[i] = x /\ \A j \in 1..(i - 1) : list[j] # x

\* add_variable that, in replace mode, drops the entries of that name and puts
\* the new one last
add_variable_moved(variables, variable, modify) ==
    IF modify /\ (\E i \in 1..Len(variables) : variables[i].name = variable.name)
    THEN Append(SelectSeq(variables, LAMBDA x : x.name # variable.name), variable)
    ELSE Append(variables, variable)

\* add_variable that appends whatever modify says
add_variable_appended(variables, variable, modify) == Append(variables, variable)

\* Namelist.add_variable, on the namelist's variables
add_variable(variables, variable, modify) ==
    LET var_name == variable.name
        names == names_of(variables)
    IN  IF modify /\ (\E i \in 1..Len(names) : names[i] = var_name)
        THEN [variables EXCEPT ![index(names, var_name)] = variable]
        ELSE Append(variables, variable)

RECURSIVE add_each(_, _, _)
\* the loop of Namelist.add_variables: add_variable for each element, in order
add_each(variables, vars, modify) ==
    IF vars = <<>> THEN variables
    ELSE add_each(add_variable(variables, Head(vars), modify),
                  Tail(vars), modify)

\* Namelist.add_variables: an argument that is not a list is wrapped
add_variables(variables, vars, modify) ==
    add_each(variables, IF ~vars.islist THEN <<vars.v>> ELSE vars.v, modify)

RECURSIVE write_variables(_, _, _)
\* the loop of Namelist.write over self.variables; an exception ends it
write_variables(variables, mf, indent) ==
    IF variables = <<>> \/ mf.err # "none" THEN mf
    ELSE write_variables(Tail(variables),
                         Variable_write(Head(variables), mf, indent), indent)

\* Namelist.write: the indent check, "&name", the variables, "/"
Namelist_write(nml, mf, indent) ==
    IF strip(indent) # <<>>
    THEN [mf EXCEPT !.err = "ValueError"]
    ELSE LET opened == [mf EXCEPT !.text = @ \o <<"&">> \o nml.name \o <<"\n">>]
             body == write_variables(nml.variables, opened, indent)
         IN  IF body.err # "none" THEN body
             ELSE [body EXCEPT !.text = @ \o <<"/", "\n">>]

\* ------------------------------------------------------------ OrderedDict
\* self.namelists is a sequence of [key, nml] in insertion order
keys(d) == [i \in 1..Len(d) |-> d[i].key]

\* key in d
has_key(d, k) == \E i \in 1..Len(d) : d[i].key = k

\* d[k] = v: a present key keeps its place, a new key goes last
dict_set(d, k, v) ==
    IF has_key(d, k)
    THEN [d EXCEPT ![index(keys(d), k)] = [key |-> k, nml |-> v]]
    ELSE Append(d, [key |-> k, nml |-> v])

\* d[k]
dict_get(d, k) == d[index(keys(d), k)].nml

\* -------------------------------------------------------- class InputFile
\* the paths of the file system; a path that names no file holds NoFile
Paths == {"input"}
NoFile == <<"<NoFile>">>

\* os.path.isfile(path)
isfile(files, path) == files[path] # NoFile

RECURSIVE write_namelists(_, _, _)
\* the loop of InputFile.write over self.namelists.keys(): each namelist, then
\* a blank line; an exception ends it and leaves what was written so far
write_namelists(d, mf, indent) ==
    IF d = <<>> \/ mf.err # "none" THEN mf
    ELSE LET done == Namelist_write(Head(d).nml, mf, indent)
         IN  IF done.err # "none" THEN done
             ELSE write_namelists(Tail(d),
                                  [done EXCEPT !.text = @ \o <<"\n">>], indent)

\* InputFile.write: output is a path or None. The result is the file system
\* afterwards and the exception raised ("none" when the call returns).
\* open(output, "w") truncates the target before anything is written to it.
InputFile_write(self_filename, d, files, output, overwrite, indent) ==
    IF output # "None" /\ isfile(files, output) /\ ~overwrite
    THEN [files |-> files, err |-> "ValueError"]
    ELSE LET target == IF output # "None" THEN output ELSE self_filename
             mf == write_namelists(d, [text |-> <<>>, err |-> "none"], indent)
         IN  [files |-> [files EXCEPT ![target] = mf.text], err |-> mf.err]

\* read skips the line: it is empty or all white space, or a comment
skipped_blank_only(Line) == strip(Line) = <<>>

skipped(Line) == strip(Line) = <<>> \/ startswith(lstrip(Line), "!")

\* the line cut and stripped in the case it was written in
cleaned_case_kept(Line) ==
    LET line == lstrip(Line)
    IN  strip(IF contains(line, "!") THEN prefix(line, find(line, "!")) ELSE line)

\* the line as read decodes it: lower-cased, cut at the first "!", stripped
cleaned(Line) ==
    LET line == lower(lstrip(Line))
    IN  strip(IF contains(line, "!") THEN prefix(line, find(line, "!")) ELSE line)

\* a "&" line that leaves the group of a name already read as it is
open_group_kept(ps, line) ==
    LET name == strip(suffix(line, 1))
    IN  [ps EXCEPT !.store_entry = TRUE,
                   !.name = name,
                   !.namelists = IF has_key(@, name) THEN @
                                 ELSE dict_set(@, name, Namelist(name))]

\* a "&" line: the name after it is the current one and maps to a new Namelist
open_group(ps, line) ==
    LET name == strip(suffix(line, 1))
    IN  [ps EXCEPT !.store_entry = TRUE,
                   !.name = name,
                   !.namelists = dict_set(@, name, Namelist(name))]

\* a "/" line that resets the flag alone
close_group_named(ps) == [ps EXCEPT !.store_entry = FALSE]

\* a "/" line: no group is open
close_group(ps) == [ps EXCEPT !.store_entry = FALSE, !.name = None]

\* a line decoded as an entry with no look at the flag
field_line_anywhere(ps, line) ==
    IF Len(split1(line, "=")) < 2 THEN [ps EXCEPT !.err = "IndexError"] ELSE ps

\* any other line: inside a group it is an entry "name = values", which goes
\* into the current group in replace mode; outside it is passed over
field_line(ps, line) ==
    IF ps.store_entry
    THEN LET fields == split1(line, "=")
         IN  IF Len(fields) < 2
             THEN [ps EXCEPT !.err = "IndexError"]
             ELSE
               LET var_name == strip(fields[1])
                   vals == strip(fields[2])
                   _vals == split(vals, ",")
                   values == IF contains(vals, ",")
                             THEN [i \in 1..Len(_vals) |-> strip(_vals[i])]
                             ELSE <<vals>>
                   var == Variable(var_name, List(values))
                   nml == dict_get(ps.namelists, ps.name)
               IN  [ps EXCEPT !.namelists =
                      dict_set(@, ps.name,
                               [nml EXCEPT !.variables =
                                  add_variable(@, var, TRUE)])]
    ELSE ps

\* the body of the loop of InputFile.read for one line of the file, on the
\* reader's state ps = [namelists, store_entry, name, err]
read_line(ps, Line) ==
    IF skipped(Line) THEN ps
    ELSE
      LET line == cleaned(Line)
      IN  IF startswith(line, "&")
          THEN open_group(ps, line)
          ELSE IF startswith(line, "/")
          THEN close_group(ps)
          ELSE field_line(ps, line)

RECURSIVE read_lines(_, _)
\* the whole loop of InputFile.read; the first exception ends it
read_lines(ps, lines) ==
    IF lines = <<>> \/ ps.err # "none" THEN ps
    ELSE read_lines(read_line(ps, Head(lines)), Tail(lines))

\* InputFile.read on an existing file: the namelists afterwards and the
\* exception raised
InputFile_read(d, text) ==
    LET ps == read_lines([namelists |-> d, store_entry |-> FALSE,
                          name |-> None, err |-> "none"], readlines(text))
    IN  [namelists |-> ps.namelists, err |-> ps.err]

\* ------------------------------------------ more Python string methods
\* s[i:j] and s[i:] (j = Len(s)): negative indices count from the end
slice(s, i, j) ==
    LET n  == Len(s)
        a  == IF i < 0 THEN (IF i + n < 0 THEN 0 ELSE i + n)
              ELSE (IF i > n THEN n ELSE i)
        b  == IF j < 0 THEN (IF j + n < 0 THEN 0 ELSE j + n)
              ELSE (IF j > n THEN n ELSE j)
    IN  IF a < b THEN SubSeq(s, a + 1, b) ELSE <<>>

\* s.startswith(sub), sub a string
startswith_str(s, sub) == Len(s) >= Len(sub) /\ SubSeq(s, 1, Len(sub)) = sub

\* s.endswith(c), c one character
endswith(s, c) == Len(s) >= 1 /\ s[Len(s)] = c

\* s.find(sub, i): the 0-based index of the first sub at or after i, else -1
find_from(s, sub, i) ==
    LET at == {j \in i..(Len(s) - Len(sub)) :
                 SubSeq(s, j + 1, j + Len(sub)) = sub}
    IN  IF at = {} THEN -1 ELSE CHOOSE j \in at : \A k \in at : j <= k

\* s.find(sub)
find_str(s, sub) == find_from(s, sub, 0)

\* sub in s
contains_str(s, sub) == find_str(s, sub) >= 0

\* s.rfind(c): the 0-based index of the last c, -1 when there is none
rfind(s, c) ==
    IF contains(s, c)
    THEN (CHOOSE i \in 1..Len(s) : s[i] = c /\ \A j \in (i + 1)..Len(s) : s[j] # c) - 1
    ELSE -1

\* s.count(c)
count(s, c) == Cardinality({i \in 1..Len(s) : s[i] = c})

RECURSIVE split_str(_, _)
\* s.split(sep), sep a string: every piece between occurrences of sep
split_str(s, sep) ==
    IF ~contains_str(s, sep) THEN <<s>>
    ELSE <<slice(s, 0, find_str(s, sep))>>
         \o split_str(slice(s, find_str(s, sep) + Len(sep), Len(s)), sep)

RECURSIVE replace(_, _, _)
\* s.replace(c, r): every character c becomes the string r
replace(s, c, r) ==
    IF s = <<>> THEN <<>>
    ELSE (IF s[1] = c THEN r ELSE <<s[1]>>) \o replace(Tail(s), c, r)

\* ---------------------------------------------------- the LaTeX sanitizer
\* _detexify
detexify(line) ==
    LET l1 == replace(line, "{", <<"\\", "{">>)
        l2 == replace(l1, "}", <<"\\", "}">>)
        l3 == replace(l2, "^", <<"\\", "^", "{", "}">>)
        l4 == replace(l3, "_", <<"\\", "_">>)
        l5 == replace(l4, "<", <<"$", "<", "$">>)
    IN  replace(l5, ">", <<"$", ">", "$">>)

\* the default of the argument sep of ensure_texable
tex_sep == <<":", "t", "e", "x", ":">>

\* _ensure_texable, line 166: the text after the first sep, stripped
tex_entry(line) == strip(split_str(line, tex_sep)[2])

\* _ensure_texable, lines 168-169: a missing "$" is appended
add_missing_dollar_never(entry) == entry

add_missing_dollar(entry) ==
    IF count(entry, "$") % 2 = 1 THEN Append(entry, "$") ELSE entry

\* _ensure_texable, line 174: the entry is one formula "$...$"
is_formula(entry) ==
    startswith(lstrip(entry), "$") /\ endswith(rstrip(entry), "$")

\* _ensure_texable, lines 174-179: the text around the formula is repaired
fix_special_characters(entry) ==
    IF ~is_formula(entry)
    THEN LET lind   == find(entry, "$")
             rind   == rfind(entry, "$")
             first  == detexify(slice(entry, 0, lind))
             second == detexify(slice(entry, rind + 1, Len(entry)))
         IN  first \o slice(entry, lind, rind + 1) \o second
    ELSE entry

\* _ensure_texable: the repaired entry, or the exception of line 166
ensure_texable(line) ==
    IF Len(split_str(line, tex_sep)) < 2
    THEN [entry |-> <<>>, err |-> "IndexError"]
    ELSE [entry |-> fix_special_characters(add_missing_dollar(tex_entry(line))),
          err |-> "none"]

\* ------------------------------------------------- the quantity catalog
\* the marker of an offset, and the keywords of a declaration line
off == <<"o", "f", "f">>
kw_integer == <<"i", "n", "t", "e", "g", "e", "r">>
kw_parameter == <<"p", "a", "r", "a", "m", "e", "t", "e", "r">>
kw_include == <<"i", "n", "c", "l", "u", "d", "e">>

Digits == {"0", "1", "2", "3", "4", "5", "6", "7", "8", "9"}

DigitValue(c) ==
    CASE c = "0" -> 0 [] c = "1" -> 1 [] c = "2" -> 2 [] c = "3" -> 3
      [] c = "4" -> 4 [] c = "5" -> 5 [] c = "6" -> 6 [] c = "7" -> 7
      [] c = "8" -> 8 [] c = "9" -> 9

RECURSIVE digits_value(_)
digits_value(s) ==
    IF s = <<>> THEN 0
    ELSE 10 * digits_value(SubSeq(s, 1, Len(s) - 1)) + DigitValue(s[Len(s)])

\* the digits of a decimal literal, after its sign
unsigned(s) == IF s # <<>> /\ s[1] \in {"+", "-"} THEN Tail(s) ELSE s

\* int(s) returns: s is an optional sign and decimal digits
is_int(s) == unsigned(s) # <<>> /\ \A i \in 1..Len(unsigned(s)) : unsigned(s)[i] \in Digits

\* int(s)
int(s) ==
    IF s[1] = "-" THEN 0 - digits_value(unsigned(s)) ELSE digits_value(unsigned(s))

\* a dict with no key, and d[k] = v
EmptyDict == [k \in {} |-> 0]
put(d, k, v) == [x \in (DOMAIN d) \cup {k} |-> IF x = k THEN v ELSE d[x]]

\* self.offsets[name] = code, unless name is already a key
save_offset_overwriting(offsets, name, code) == put(offsets, name, code)

save_offset(offsets, name, code) ==
    IF name \notin DOMAIN offsets THEN put(offsets, name, code) ELSE offsets

\* _parse_quantity_code that never raises: what it cannot resolve is 0
parse_quantity_code_defaulting(offsets, name, code) ==
    IF is_int(code) THEN [code |-> int(code), offsets |-> offsets, err |-> "none"]
    ELSE [code |-> 0, offsets |-> offsets, err |-> "none"]

\* OutputQuantities._parse_quantity_code: the code, self.offsets afterwards,
\* and the exception raised
parse_quantity_code(offsets, name, code) ==
    LET failed(e) == [code |-> 0, offsets |-> offsets, err |-> e]
        vals      == split(code, "+")
        sum       == offsets[strip(vals[1])] + int(strip(vals[2]))
    IN  IF contains_str(name, off) /\ ~contains_str(code, off)
        THEN IF ~is_int(code) THEN failed("ValueError")
             ELSE [code |-> int(code),
                   offsets |-> save_offset(offsets, name, int(code)),
                   err |-> "none"]
        ELSE IF contains_str(code, off)
        THEN IF strip(vals[1]) \notin DOMAIN offsets THEN failed("KeyError")
             ELSE IF Len(vals) < 2 THEN failed("IndexError")
             ELSE IF ~is_int(strip(vals[2])) THEN failed("ValueError")
             ELSE [code |-> sum,
                   offsets |-> IF contains_str(name, off)
                               THEN save_offset(offsets, name, sum)
                               ELSE offsets,
                   err |-> "none"]
        ELSE IF ~is_int(code) THEN failed("ValueError")
             ELSE [code |-> int(code), offsets |-> offsets, err |-> "none"]

\* _parse_line, line 295: an empty line or a comment
ignored(line) == startswith(lstrip(line), "!") \/ strip(line) = <<>>

\* _parse_line, line 298: the line declares a quantity
is_declaration(line) ==
    contains_str(line, kw_integer) /\ contains_str(line, kw_parameter)
    /\ contains(line, "=")

\* _parse_line, lines 302-304 and 311: the pieces of "name = index"
decl_q(line) == split(split(split_str(strip(line), <<":", ":">>)[2], "!")[1], "=")

\* _parse_line, lines 305-309: the trailing comment, in the case of Line
decl_comment(Line) ==
    LET inds == split(split_str(strip(lower(Line)), <<":", ":">>)[2], "!")
    IN  IF Len(inds) = 1 THEN <<>>
        ELSE strip(split(split_str(strip(Line), <<":", ":">>)[2], "!")[2])

\* OutputQuantities._parse_line: result holds the triple of a declaration and
\* is empty for None
parse_line(offsets, Line) ==
    LET line      == lower(Line)
        nothing(e) == [result |-> <<>>, offsets |-> offsets, err |-> e]
        q         == decl_q(line)
        name      == strip(q[1])
        parsed    == parse_quantity_code(offsets, name, strip(q[2]))
        comment   == decl_comment(Line)
        tex       == IF ~contains_str(name, off) /\ contains_str(comment, tex_sep)
                     THEN ensure_texable(comment).entry
                     ELSE comment
    IN  IF ignored(line) THEN nothing("none")
        ELSE IF ~is_declaration(line) THEN nothing("none")
        ELSE IF Len(split_str(strip(line), <<":", ":">>)) < 2 THEN nothing("IndexError")
        ELSE IF Len(q) < 2 THEN nothing("IndexError")
        ELSE IF parsed.err # "none" THEN nothing(parsed.err)
        ELSE [result |-> <<[name |-> name, code |-> parsed.code, tex |-> tex]>>,
              offsets |-> parsed.offsets, err |-> "none"]

\* Quantity
Quantity(code, name, tex) == [code |-> code, name |-> lower(name), tex |-> tex]

sort_by_code_unsorted(list) == list

RECURSIVE sort_by_code(_)
\* list.sort(key = the code): stable, equal codes keep their order

sort_by_code(list) ==
    IF list = <<>> THEN <<>>
    ELSE LET n      == Len(list)
             sorted == sort_by_code(SubSeq(list, 1, n - 1))
             x      == list[n]
             before == SelectSeq(sorted, LAMBDA y : y.code <= x.code)
             after  == SelectSeq(sorted, LAMBDA y : y.code > x.code)
         IN  before \o <<x>> \o after

\* _parse_basefile, lines 344-345 and 348-349: one line through _parse_line,
\* its triple appended to the local quantities
parse_into(ps, Line) ==
    LET r == parse_line(ps.offsets, Line)
    IN  [ps EXCEPT !.offsets = r.offsets,
                   !.triples = ps.triples \o r.result,
                   !.err = r.err]

RECURSIVE parse_included(_, _)
\* _parse_basefile, lines 343-345: the loop over the included file
parse_included(ps, mf) ==
    IF mf = <<>> \/ ps.err # "none" THEN ps
    ELSE parse_included(parse_into(ps, Head(mf)), Tail(mf))

\* _parse_basefile, line 336: the line is an include directive
is_include(Line) == startswith_str(lstrip(lower(Line)), kw_include)

\* _parse_basefile, lines 337-340: the local inc_file after an include line
included_name(inc_file, Line) ==
    IF contains(Line, "'") THEN split(Line, "'")[2]
    ELSE IF contains(Line, "\"") THEN split(Line, "\"")[2]
    ELSE inc_file

\* _parse_basefile, lines 336-342: the included file is opened
open_included(ps, Line, dir) ==
    LET f == included_name(ps.inc_file, Line)
    IN  IF f = None THEN [ps EXCEPT !.err = "UnboundLocalError"]
        ELSE IF f \notin DOMAIN dir \/ dir[f] = NoFile
        THEN [ps EXCEPT !.inc_file = f, !.err = "FileNotFoundError"]
        ELSE [ps EXCEPT !.inc_file = f]

\* _parse_basefile, lines 334-349: one line of the base file
scan_base_line(ps, Line, dir) ==
    IF is_include(Line)
    THEN LET opened == open_included(ps, Line, dir)
         IN  IF opened.err # "none" THEN opened
             ELSE parse_included(opened, readlines(dir[opened.inc_file]))
    ELSE parse_into(ps, lower(Line))

RECURSIVE scan_base_lines(_, _, _)
\* _parse_basefile, lines 333-349: the loop over the base file
scan_base_lines(ps, base, dir) ==
    IF base = <<>> \/ ps.err # "none" THEN ps
    ELSE scan_base_lines(scan_base_line(ps, Head(base), dir), Tail(base), dir)

\* _parse_basefile, lines 351-354: self.quantities
materialize(triples) ==
    LET sorted == sort_by_code(triples)
    IN  [i \in 1..Len(sorted) |->
            Quantity(sorted[i].code, sorted[i].name, sorted[i].tex)]

\* the state of a scan that has read nothing
NewScan == [offsets |-> EmptyDict, triples |-> <<>>, inc_file |-> None, err |-> "none"]

\* OutputQuantities._parse_basefile on the lines of a base file
parse_basefile(base, dir) ==
    LET ps == scan_base_lines(NewScan, base, dir)
    IN  [quantities |-> IF ps.err = "none" THEN materialize(ps.triples) ELSE <<>>,
         offsets |-> ps.offsets, err |-> ps.err]

\* ---------------------------------------------------- the classifier
\* _find_quantities: the name of the function whose calls are searched
func_name == <<"c", "o", "m", "p", "u", "t", "e", "_", "q", "u", "a", "n", "t", "i", "t", "y">>

\* _parse_diagnostic_files, line 361: the word a file name must hold
kw_diagnostics == <<"d", "i", "a", "g", "n", "o", "s", "t", "i", "c", "s">>

\* _parse_diagnostic_files, lines 365-366
ignore_files ==
    {<<"d", "i", "a", "g", "n", "o", "s", "t", "i", "c", "s", "_", "b", "a", "s", "e", ".", "f", "9", "0">>,
     <<"d", "i", "a", "g", "n", "o", "s", "t", "i", "c", "s", "_", "i", "n", "t", "e", "r", "f", "a", "c", "e", ".", "f", "9", "0">>,
     <<"d", "i", "a", "g", "n", "o", "s", "t", "i", "c", "s", "_", "a", "d", "o", "t", "g", "r", "a", "d", "b", ".", "f", "9", "0">>,
     <<"d", "i", "a", "g", "n", "o", "s", "t", "i", "c", "s", "_", "m", "e", "a", "n", "_", "c", "o", "r", "r", "e", "c", "t", "i", "o", "n", ".", "f", "9", "0">>}

\* substring_indices: the indices where substr occurs in line
substring_indices(line, substr) ==
    {ind \in 0..(Len(line) - Len(substr)) :
        SubSeq(line, ind + 1, ind + Len(substr)) = substr}

\* _find_quantities, lines 435-439: the argument of the call at ind
var_name_at(line, ind) ==
    LET start       == ind + Len(func_name)
        rest        == slice(line, start, Len(line))
        open_paren  == find(rest, "(")
        close_paren == find(rest, ")")
    IN  strip(slice(line, start + open_paren + 1, start + close_paren))

\* _find_quantities: the names found in a line, none when it returns None
find_quantities(line) ==
    IF ~contains_str(line, func_name) THEN {}
    ELSE {var_name_at(line, ind) : ind \in substring_indices(line, func_name)}

\* _parse_diagnostic_files, line 383: the line is not searched
not_searched(line) == startswith(line, "!") \/ strip(line) = <<>>

\* _parse_diagnostic_files, lines 379-392: the names one file refers to
diag_quants_of(text) ==
    LET mf == readlines(text)
    IN  UNION {IF not_searched(lower(mf[i])) THEN {} ELSE find_quantities(lower(mf[i])) :
                 i \in 1..Len(mf)}

\* every order list(set(...)) can give to a set of names
Orders(S) ==
    {o \in [1..Cardinality(S) -> S] : \A i, j \in 1..Cardinality(S) : o[i] = o[j] => i = j}

\* _parse_diagnostic_files, lines 360-371: the files that are scanned
is_scanned(f) ==
    contains_str(lower(f), kw_diagnostics) /\ lower(f) \notin ignore_files

\* _parse_diagnostic_files, line 395: the diagnostic type of a file name
diag_type_of(f) == slice(split1(f, "_")[2], 0, -4)

\* _parse_diagnostic_files, lines 404-413: the quantities one file adds to
\* the list of its type, the names of the file taken in the given order
matched_until_miss(quantities, present, order) ==
    LET quantity_names == [i \in 1..Len(quantities) |-> quantities[i].name]
        qnames == {present[i].name : i \in 1..Len(present)}
        known(q) == \E i \in 1..Len(quantities) : quantities[i].name = q
        misses == {i \in 1..Len(order) : ~known(order[i])}
        upto   == IF misses = {} THEN Len(order)
                  ELSE (CHOOSE i \in misses : \A j \in misses : i <= j) - 1
        found  == SelectSeq(SubSeq(order, 1, upto), LAMBDA q : q \notin qnames)
    IN  [i \in 1..Len(found) |-> quantities[index(quantity_names, found[i])]]

matched(quantities, present, order) ==
    LET quantity_names == [i \in 1..Len(quantities) |-> quantities[i].name]
        qnames == {present[i].name : i \in 1..Len(present)}
        found  == SelectSeq(order, LAMBDA q :
                     (\E i \in 1..Len(quantities) : quantities[i].name = q)
                     /\ q \notin qnames)
    IN  [i \in 1..Len(found) |-> quantities[index(quantity_names, found[i])]]

\* _parse_diagnostic_files, lines 378-413: one file
classify_file(diagnostic_types, quantities, f, order) ==
    LET diag_type == diag_type_of(f)
        present   == IF diag_type \in DOMAIN diagnostic_types
                     THEN diagnostic_types[diag_type] ELSE <<>>
    IN  put(diagnostic_types, diag_type,
            present \o matched(quantities, present, order))

\* _parse_diagnostic_files, lines 416-419: the empty entries are removed
remove_empty_kept(diagnostic_types) == diagnostic_types

remove_empty(diagnostic_types) ==
    [k \in {x \in DOMAIN diagnostic_types : Len(diagnostic_types[x]) # 0} |->
        diagnostic_types[k]]

\* _parse_diagnostic_files, lines 422-423: every entry is sorted by code
sort_entries(diagnostic_types) ==
    [k \in DOMAIN diagnostic_types |-> sort_by_code(diagnostic_types[k])]

\* ------------------------------------------------------------------ state
VARIABLES
    namelists,    \* InputFile.namelists
    files,        \* the file system: path -> text, or NoFile
    err,          \* the exception the latest call raised, "none" when it returned
    pc,           \* "idle" between calls, "new" when InputFile(filename) is about
                  \* to call read, "read" inside the loop of read
    lines,        \* read: the lines of the file not yet consumed
    store_entry,  \* read: the local store_entry
    name,         \* read: the local name
    call,         \* the latest call and, for add_variable, its arguments
    offsets,      \* OutputQuantities.offsets
    quantities,   \* OutputQuantities.quantities
    diagnostic_types, \* OutputQuantities.diagnostic_types
    dir,          \* the files of diag_dir that can be included: name -> text, or NoFile
    base_lines,   \* _parse_basefile: the lines of the base file read so far
    triples,      \* _parse_basefile: the local quantities
    inc_file,     \* _parse_basefile: the local inc_file, None while it is unbound
    inc_lines,    \* _parse_basefile: the lines of the included file not yet read
    scanned,      \* _parse_diagnostic_files: the files of the loop already done
    latest,       \* _parse_diagnostic_files: the file scanned last and its text
    texline,      \* _ensure_texable: the argument line
    entry,        \* _ensure_texable: the value returned
    mpc,          \* where OutputQuantities(...) or _ensure_texable(...) stands
    merr          \* the exception that ended it, "none" when there is none

\* the variables of the namelist document
document == <<namelists, files, err, pc, lines, store_entry, name, call>>

\* the variables of the quantity catalog and of the sanitizer
mining ==
    <<offsets, quantities, diagnostic_types, dir, base_lines, triples, inc_file,
      inc_lines, scanned, latest, texline, entry, mpc, merr>>

vars ==
    <<namelists, files, err, pc, lines, store_entry, name, call,
      offsets, quantities, diagnostic_types, dir, base_lines, triples, inc_file,
      inc_lines, scanned, latest, texline, entry, mpc, merr>>

\* a call whose arguments are not recorded
Called(op) ==
    [op |-> op, k |-> None, variable |-> [name |-> None, value |-> <<>>],
     modify |-> FALSE]

\* InputFile.filename
filename == "input"

\* ----------------------------------------------------------------- inputs
GroupNames == {<<"g">>, <<"h">>}
VarNames == {<<"a">>, <<"B">>}
Values == {Scalar(<<"1">>), List(<< <<"X">>, <<"2">> >>)}
Variables == {Variable(n, v) : n \in VarNames, v \in Values}
\* the variables added in a session that also reads or writes files
SessionVariables ==
    {Variable(<<"a">>, Scalar(<<"1">>)), Variable(<<"B">>, List(<< <<"X">>, <<"2">> >>))}
Indents == {<<" ">>, <<"x">>}
Outputs == Paths \cup {"None"}

\* a well-formed file that is on disk before the session starts
Existing == <<"&", "h", "\n", " ", "a", " ", "=", " ", "1", "\n", "/", "\n", "\n">>

\* a file on disk whose second field line has no "="
Malformed == <<"&", "h", "\n", "a", "=", "1", "\n", "b", "\n", "/", "\n">>

\* lines an input file is made of
SampleLines ==
    { <<"&", "g", "\n">>,
      <<"&", "H", "\n">>,
      <<"/", "\n">>,
      <<" ", "a", " ", "=", " ", "1", "\n">>,
      <<"B", "=", "X", ",", "2", " ", "!", "c", "\n">>,
      <<"b", "\n">>,
      <<"!", "c", "\n">>,
      <<"a", "=", "'", "X", "!", "y", "'", "\n">>,
      <<"a", "=", "b", "=", "1", "\n">>,
      <<"=", "1", "\n">>,
      <<" ", "\n">> }

RECURSIVE FilesOf(_)
\* the texts of exactly n sample lines
FilesOf(n) ==
    IF n = 0 THEN {<<>>}
    ELSE {l \o t : l \in SampleLines, t \in FilesOf(n - 1)}

SampleFiles == UNION {FilesOf(n) : n \in 0..MaxLines}

\* ------------------------------------- inputs of the quantity catalog
\* most lines of a base file
MaxDecls == 4
\* most lines of a Diagnostics_<type> file
MaxRefs == 2
\* most characters after the :tex: of a comment
MaxTex == 3

\* lines of a base file
DefOffA ==
    <<"i", "n", "t", "e", "g", "e", "r", ",", " ", "p", "a", "r", "a", "m", "e", "t", "e", "r", " ", ":", ":", " ", "o", "f", "f", "A", " ", "=", " ", "1", "0", "\n">>
RefOffA ==
    <<"i", "n", "t", "e", "g", "e", "r", ",", "p", "a", "r", "a", "m", "e", "t", "e", "r", ":", ":", "q", "X", "=", "o", "f", "f", "A", "+", "5", " ", "!", ":", "t", "e", "x", ":", "$", "B", "_", "x", "$", "\n">>
DefOffB ==
    <<"i", "n", "t", "e", "g", "e", "r", ",", "p", "a", "r", "a", "m", "e", "t", "e", "r", ":", ":", "o", "f", "f", "B", "=", "o", "f", "f", "A", "+", "1", "0", "0", "\n">>
RefOffB ==
    <<"i", "n", "t", "e", "g", "e", "r", ",", "p", "a", "r", "a", "m", "e", "t", "e", "r", ":", ":", "q", "Y", "=", "o", "f", "f", "B", "+", "1", "\n">>
RedefOffA ==
    <<"i", "n", "t", "e", "g", "e", "r", ",", "p", "a", "r", "a", "m", "e", "t", "e", "r", ":", ":", "o", "f", "f", "A", "=", "2", "0", "\n">>
Include ==
    <<"i", "n", "c", "l", "u", "d", "e", " ", "'", "c", "o", "d", "e", "s", ".", "F", "'", "\n">>

DeclLines == {DefOffA, RefOffA, DefOffB, RefOffB, RedefOffA, Include}

\* the file an include line names, and a text it can hold
codes_F == <<"c", "o", "d", "e", "s", ".", "F">>

Included ==
    <<"i", "n", "t", "e", "g", "e", "r", ",", "p", "a", "r", "a", "m", "e", "t", "e", "r", ":", ":", "o", "f", "f", "B", "=", "o", "f", "f", "A", "+", "1", "0", "0", "\n">>
    \o <<"I", "n", "t", "e", "g", "e", "r", ",", "p", "a", "r", "a", "m", "e", "t", "e", "r", ":", ":", "q", "Z", "=", "1", "5", " ", "!", ":", "t", "e", "x", ":", "$", "B", "$", "\n">>

\* a text of codes.F that holds an include line itself
Nesting == Include \o RedefOffA

\* diag_dir, as far as includes go: codes.F is missing, or holds Included or
\* Nesting
Dirs == {[f \in {codes_F} |-> t] : t \in {NoFile, Included, Nesting}}

\* lines of a Diagnostics_<type> file
CallX ==
    <<"c", "a", "l", "l", " ", "c", "o", "m", "p", "u", "t", "e", "_", "q", "u", "a", "n", "t", "i", "t", "y", "(", "q", "X", ")", "\n">>
CallZAndMiss ==
    <<" ", "a", "=", "c", "o", "m", "p", "u", "t", "e", "_", "q", "u", "a", "n", "t", "i", "t", "y", "(", " ", "q", "z", " ", ")", "+", "c", "o", "m", "p", "u", "t", "e", "_", "q", "u", "a", "n", "t", "i", "t", "y", "(", "n", "o", "p", "e", ")", "\n">>
CallMiss ==
    <<"c", "o", "m", "p", "u", "t", "e", "_", "q", "u", "a", "n", "t", "i", "t", "y", "(", "n", "o", "p", "e", ")", "\n">>
CallInComment ==
    <<"!", "c", "o", "m", "p", "u", "t", "e", "_", "q", "u", "a", "n", "t", "i", "t", "y", "(", "q", "y", ")", "\n">>

RefLines == {CallX, CallZAndMiss, CallMiss, CallInComment}

RECURSIVE TextsOf(_)
\* the texts of exactly n lines of RefLines
TextsOf(n) ==
    IF n = 0 THEN {<<>>}
    ELSE {l \o t : l \in RefLines, t \in TextsOf(n - 1)}

RefTexts == UNION {TextsOf(n) : n \in 0..MaxRefs}

\* _parse_diagnostic_files, lines 379-392, on each text of RefTexts
RefNames == {[text |-> t, names |-> diag_quants_of(t)] : t \in RefTexts}

\* the names a text of RefTexts refers to
names_in(text) == (CHOOSE r \in RefNames : r.text = text).names

\* names of files of diag_dir
Diagnostics_A == <<"D", "i", "a", "g", "n", "o", "s", "t", "i", "c", "s", "_", "A", ".", "F", "9", "0">>
diagnostics_A == <<"d", "i", "a", "g", "n", "o", "s", "t", "i", "c", "s", "_", "A", ".", "f", "9", "0">>
Diagnostics_Base == <<"D", "i", "a", "g", "n", "o", "s", "t", "i", "c", "s", "_", "B", "a", "s", "e", ".", "F", "9", "0">>
diagnostics_f90 == <<"d", "i", "a", "g", "n", "o", "s", "t", "i", "c", "s", ".", "F", "9", "0">>

FileNames == {Diagnostics_A, diagnostics_A, Diagnostics_Base, diagnostics_f90, codes_F}

\* base files whose catalogs the classifier is run on
CatalogSources ==
    {<<DefOffA, RefOffA, Include, RefOffB>>, <<DefOffA, RedefOffA, RefOffA>>}

\* characters of the text after :tex:
TexChars == {"$", "^", "_", "<", "x", " "}

RECURSIVE TexTexts(_)
\* the texts of exactly n characters of TexChars
TexTexts(n) ==
    IF n = 0 THEN {<<>>}
    ELSE {<<c>> \o t : c \in TexChars, t \in TexTexts(n - 1)}

\* comments "d:tex:..." of at most MaxTex characters after the marker
TexLines == {<<"d">> \o tex_sep \o t : t \in UNION {TexTexts(n) : n \in 0..MaxTex}}

\* no file of diag_dir has been scanned
NoLatest == [f |-> <<>>, text |-> <<>>]

\* ---------------------------------------------------------------- actions
\* a namelist is added by hand
AddNamelist(n) ==
    /\ pc = "idle"
    /\ ~has_key(namelists, n)
    /\ Len(namelists) < MaxGroups
    /\ namelists' = dict_set(namelists, n, Namelist(n))
    /\ err' = "none"
    /\ call' = Called("add_namelist")
    /\ UNCHANGED <<files, pc, lines, store_entry, name>>
    /\ UNCHANGED mining

\* self.namelists[k].add_variable(variable, modify)
AddVariable(k, variable, modify) ==
    /\ pc = "idle"
    /\ has_key(namelists, k)
    /\ LET nml == dict_get(namelists, k)
           after == add_variable(nml.variables, variable, modify)
       IN  /\ Len(after) <= MaxVars
           /\ namelists' = dict_set(namelists, k, [nml EXCEPT !.variables = after])
    /\ err' = "none"
    /\ call' = [op |-> "add_variable", k |-> k, variable |-> variable,
                modify |-> modify]
    /\ UNCHANGED <<files, pc, lines, store_entry, name>>
    /\ UNCHANGED mining

\* self.namelists[k].add_variables(variables, modify)
AddVariables(k, variables, modify) ==
    /\ pc = "idle"
    /\ has_key(namelists, k)
    /\ LET nml == dict_get(namelists, k)
           after == add_variables(nml.variables, variables, modify)
       IN  /\ Len(after) <= MaxVars
           /\ namelists' = dict_set(namelists, k, [nml EXCEPT !.variables = after])
    /\ err' = "none"
    /\ call' = Called("add_variables")
    /\ UNCHANGED <<files, pc, lines, store_entry, name>>
    /\ UNCHANGED mining

\* self.write(output, overwrite, indent)
Write(output, overwrite, indent) ==
    /\ pc = "idle"
    /\ LET res == InputFile_write(filename, namelists, files,
                                  output, overwrite, indent)
       IN  /\ files' = res.files
           /\ err' = res.err
    /\ call' = Called("write")
    /\ UNCHANGED <<namelists, pc, lines, store_entry, name>>
    /\ UNCHANGED mining

\* self.read(), the whole call: open() raises when the file is missing
Read ==
    /\ pc = "idle"
    /\ IF ~isfile(files, filename)
       THEN /\ err' = "FileNotFoundError"
            /\ UNCHANGED namelists
       ELSE LET res == InputFile_read(namelists, files[filename])
            IN  /\ namelists' = res.namelists
                /\ err' = res.err
    /\ call' = Called("read")
    /\ UNCHANGED <<files, pc, lines, store_entry, name>>
    /\ UNCHANGED mining

\* the same call, one step per line. read starts: the locals are set and the
\* file is opened
ReadOpen ==
    /\ pc = "new"
    /\ IF ~isfile(files, filename)
       THEN /\ err' = "FileNotFoundError"
            /\ pc' = "idle"
            /\ UNCHANGED <<lines, store_entry, name>>
       ELSE /\ err' = "none"
            /\ pc' = "read"
            /\ lines' = readlines(files[filename])
            /\ store_entry' = FALSE
            /\ name' = None
    /\ call' = Called("read")
    /\ UNCHANGED <<namelists, files>>
    /\ UNCHANGED mining

\* one pass of the loop of read; an exception leaves the loop and the call
ReadLine ==
    /\ pc = "read"
    /\ lines # <<>>
    /\ LET ps == read_line([namelists |-> namelists, store_entry |-> store_entry,
                            name |-> name, err |-> "none"], Head(lines))
       IN  /\ namelists' = ps.namelists
           /\ err' = ps.err
           /\ IF ps.err # "none"
              THEN /\ pc' = "idle"
                   /\ lines' = <<>>
                   /\ store_entry' = FALSE
                   /\ name' = None
              ELSE /\ pc' = "read"
                   /\ lines' = Tail(lines)
                   /\ store_entry' = ps.store_entry
                   /\ name' = ps.name
    /\ UNCHANGED <<files, call>>
    /\ UNCHANGED mining

\* the end of the file: read returns
ReadClose ==
    /\ pc = "read"
    /\ lines = <<>>
    /\ pc' = "idle"
    /\ store_entry' = FALSE
    /\ name' = None
    /\ UNCHANGED <<namelists, files, err, lines, call>>
    /\ UNCHANGED mining

\* ------------------------------------------- actions of the quantity catalog
\* the locals and attributes a scan of the base file works on
Scan == [offsets |-> offsets, triples |-> triples, inc_file |-> inc_file, err |-> merr]

\* an exception leaves OutputQuantities(...); no object is returned
Raise(e) ==
    /\ merr' = e
    /\ mpc' = "failed"

\* _parse_basefile, one pass of the loop over the base file, up to the
\* opening of an included file
ScanBaseLine(Line) ==
    /\ mpc = "base"
    /\ inc_lines = <<>>
    /\ Len(base_lines) < MaxDecls
    /\ base_lines' = Append(base_lines, Line)
    /\ IF is_include(Line)
       THEN LET opened == open_included(Scan, Line, dir)
            IN  /\ inc_file' = opened.inc_file
                /\ IF opened.err # "none"
                   THEN /\ Raise(opened.err)
                        /\ UNCHANGED inc_lines
                   ELSE /\ inc_lines' = readlines(dir[opened.inc_file])
                        /\ UNCHANGED <<mpc, merr>>
                /\ UNCHANGED <<offsets, triples>>
       ELSE LET ps == parse_into(Scan, lower(Line))
            IN  /\ offsets' = ps.offsets
                /\ triples' = ps.triples
                /\ IF ps.err # "none" THEN Raise(ps.err) ELSE UNCHANGED <<mpc, merr>>
                /\ UNCHANGED <<inc_file, inc_lines>>
    /\ UNCHANGED <<quantities, diagnostic_types, dir, scanned, latest, texline, entry>>
    /\ UNCHANGED document

\* _parse_basefile, one pass of the loop over the included file
ScanIncludedLine ==
    /\ mpc = "base"
    /\ inc_lines # <<>>
    /\ LET ps == parse_into(Scan, Head(inc_lines))
       IN  /\ offsets' = ps.offsets
           /\ triples' = ps.triples
           /\ IF ps.err # "none"
              THEN /\ Raise(ps.err)
                   /\ inc_lines' = <<>>
              ELSE /\ inc_lines' = Tail(inc_lines)
                   /\ UNCHANGED <<mpc, merr>>
    /\ UNCHANGED <<quantities, diagnostic_types, dir, base_lines, inc_file, scanned,
                   latest, texline, entry>>
    /\ UNCHANGED document

\* _parse_basefile, the end of the base file: the triples are sorted and
\* become self.quantities
ParseBasefileEnd ==
    /\ mpc = "base"
    /\ inc_lines = <<>>
    /\ quantities' = materialize(triples)
    /\ mpc' = "files"
    /\ UNCHANGED <<offsets, diagnostic_types, dir, base_lines, triples, inc_file,
                   inc_lines, scanned, latest, texline, entry, merr>>
    /\ UNCHANGED document

\* _parse_diagnostic_files, one pass of the loop over the files: file f of
\* diag_dir holds text, and list(set(...)) gives its names in some order
ClassifyFile(f, text) ==
    /\ mpc = "files"
    /\ is_scanned(f)
    /\ f \notin scanned
    /\ scanned' = scanned \cup {f}
    /\ latest' = [f |-> f, text |-> text]
    /\ IF ~contains(f, "_")
       THEN /\ Raise("IndexError")
            /\ UNCHANGED diagnostic_types
       ELSE /\ \E order \in Orders(names_in(text)) :
                  diagnostic_types' =
                      classify_file(diagnostic_types, quantities, f, order)
            /\ UNCHANGED <<mpc, merr>>
    /\ UNCHANGED <<offsets, quantities, dir, base_lines, triples, inc_file,
                   inc_lines, texline, entry>>
    /\ UNCHANGED document

\* _parse_diagnostic_files, after the last file: OutputQuantities(...) returns
ParseDiagnosticFilesEnd ==
    /\ mpc = "files"
    /\ diagnostic_types' = sort_entries(remove_empty(diagnostic_types))
    /\ mpc' = "done"
    /\ UNCHANGED <<offsets, quantities, dir, base_lines, triples, inc_file,
                   inc_lines, scanned, latest, texline, entry, merr>>
    /\ UNCHANGED document

\* _ensure_texable(texline, verbose=False)
EnsureTexable ==
    /\ mpc = "tex"
    /\ entry' = ensure_texable(texline).entry
    /\ merr' = ensure_texable(texline).err
    /\ mpc' = "done"
    /\ UNCHANGED <<offsets, quantities, diagnostic_types, dir, base_lines, triples,
                   inc_file, inc_lines, scanned, latest, texline>>
    /\ UNCHANGED document

\* --------------------------------------------------------- specifications
\* no OutputQuantities is being built and no comment is being repaired
MiningIdle ==
    /\ offsets = EmptyDict
    /\ quantities = <<>>
    /\ diagnostic_types = EmptyDict
    /\ dir = [f \in {codes_F} |-> NoFile]
    /\ base_lines = <<>>
    /\ triples = <<>>
    /\ inc_file = None
    /\ inc_lines = <<>>
    /\ scanned = {}
    /\ latest = NoLatest
    /\ texline = <<>>
    /\ entry = <<>>
    /\ mpc = "idle"
    /\ merr = "none"

\* no InputFile is in use
DocumentIdle ==
    /\ namelists = <<>>
    /\ files = [p \in Paths |-> NoFile]
    /\ err = "none"
    /\ pc = "idle"
    /\ lines = <<>>
    /\ store_entry = FALSE
    /\ name = None
    /\ call = Called("init")

\* an editing session on InputFile(filename, read=False): each path holds no
\* file, a well-formed file or a malformed one
Init ==
    /\ namelists = <<>>
    /\ files \in [Paths -> {NoFile, Existing, Malformed}]
    /\ err = "none"
    /\ pc = "idle"
    /\ lines = <<>>
    /\ store_entry = FALSE
    /\ name = None
    /\ call = Called("init")
    /\ MiningIdle

Next ==
    \/ \E n \in GroupNames : AddNamelist(n)
    \/ \E k \in GroupNames, v \in SessionVariables, m \in BOOLEAN :
          AddVariable(k, v, m)
    \/ \E k \in GroupNames, v \in SessionVariables, w \in SessionVariables,
          m \in BOOLEAN :
          AddVariables(k, List(<<v, w>>), m)
    \/ \E k \in GroupNames, v \in SessionVariables, m \in BOOLEAN :
          AddVariables(k, Scalar(v), m)
    \/ \E o \in Outputs, ow \in BOOLEAN, i \in Indents : Write(o, ow, i)
    \/ Read

Spec == Init /\ [][Next]_vars

\* InputFile(filename): the document starts empty and read is called once, on
\* a file of at most MaxLines sample lines; afterwards variables are added in
\* replace mode
InitParse ==
    /\ namelists = <<>>
    /\ files \in {[p \in Paths |-> IF p = filename THEN t ELSE NoFile] :
                    t \in SampleFiles}
    /\ err = "none"
    /\ pc = "new"
    /\ lines = <<>>
    /\ store_entry = FALSE
    /\ name = None
    /\ call = Called("init")
    /\ MiningIdle

NextParse ==
    \/ ReadOpen
    \/ ReadLine
    \/ ReadClose
    \/ \E k \in GroupNames, v \in SessionVariables : AddVariable(k, v, TRUE)
    \/ \E k \in GroupNames, v \in SessionVariables, w \in SessionVariables :
          AddVariables(k, List(<<v, w>>), TRUE)

SpecParse == InitParse /\ [][NextParse]_vars

\* editing by hand, in both modes, with no file involved
InitEdit ==
    /\ namelists = <<>>
    /\ files = [p \in Paths |-> NoFile]
    /\ err = "none"
    /\ pc = "idle"
    /\ lines = <<>>
    /\ store_entry = FALSE
    /\ name = None
    /\ call = Called("init")
    /\ MiningIdle

NextEdit ==
    \/ \E n \in GroupNames : AddNamelist(n)
    \/ \E k \in GroupNames, v \in Variables, m \in BOOLEAN : AddVariable(k, v, m)
    \/ \E k \in GroupNames, v \in SessionVariables, w \in SessionVariables,
          m \in BOOLEAN :
          AddVariables(k, List(<<v, w>>), m)
    \/ \E k \in GroupNames, v \in Variables, m \in BOOLEAN :
          AddVariables(k, Scalar(v), m)

SpecEdit == InitEdit /\ [][NextEdit]_vars

\* OutputQuantities(rayleigh_dir) on a base file of at most MaxDecls lines of
\* DeclLines, in a directory with no Diagnostics_<type> file
InitCatalog ==
    /\ DocumentIdle
    /\ offsets = EmptyDict
    /\ quantities = <<>>
    /\ diagnostic_types = EmptyDict
    /\ dir \in Dirs
    /\ base_lines = <<>>
    /\ triples = <<>>
    /\ inc_file = None
    /\ inc_lines = <<>>
    /\ scanned = {}
    /\ latest = NoLatest
    /\ texline = <<>>
    /\ entry = <<>>
    /\ mpc = "base"
    /\ merr = "none"

NextCatalog ==
    \/ \E Line \in DeclLines : ScanBaseLine(Line)
    \/ ScanIncludedLine
    \/ ParseBasefileEnd
    \/ ParseDiagnosticFilesEnd

SpecCatalog == InitCatalog /\ [][NextCatalog]_vars

\* OutputQuantities(rayleigh_dir) from the call of _parse_diagnostic_files
\* on: the catalog is the one of a base file of CatalogSources
InitClassify ==
    /\ DocumentIdle
    /\ dir = [f \in {codes_F} |-> Included]
    /\ \E base \in CatalogSources :
          /\ base_lines = base
          /\ offsets = parse_basefile(base, dir).offsets
          /\ quantities = parse_basefile(base, dir).quantities
    /\ diagnostic_types = EmptyDict
    /\ triples = <<>>
    /\ inc_file = None
    /\ inc_lines = <<>>
    /\ scanned = {}
    /\ latest = NoLatest
    /\ texline = <<>>
    /\ entry = <<>>
    /\ mpc = "files"
    /\ merr = "none"

NextClassify ==
    \/ \E f \in FileNames, text \in RefTexts : ClassifyFile(f, text)
    \/ ParseDiagnosticFilesEnd

SpecClassify == InitClassify /\ [][NextClassify]_vars

\* _ensure_texable on every comment of TexLines
InitTex ==
    /\ DocumentIdle
    /\ offsets = EmptyDict
    /\ quantities = <<>>
    /\ diagnostic_types = EmptyDict
    /\ dir = [f \in {codes_F} |-> NoFile]
    /\ base_lines = <<>>
    /\ triples = <<>>
    /\ inc_file = None
    /\ inc_lines = <<>>
    /\ scanned = {}
    /\ latest = NoLatest
    /\ texline \in TexLines
    /\ entry = <<>>
    /\ mpc = "tex"
    /\ merr = "none"

NextTex == EnsureTexable

SpecTex == InitTex /\ [][NextTex]_vars


\* ----------------------------------------------------------------- claims
\* the text InputFile.write(indent=" ") puts in its target
Serialized(d) ==
    write_namelists(d, [text |-> <<>>, err |-> "none"], <<" ">>).text

\* the same groups in the same order, each with the same name and the same
\* fields (names and value sequences) in the same order
SameDocument(d, e) ==
    /\ Len(d) = Len(e)
    /\ \A i \in 1..Len(d) : d[i].nml = e[i].nml

\* the file that write targets: the explicit output, or self.filename
Target(output) == IF output # "None" THEN output ELSE filename

\* C1: reading back the file that write(indent=" ") made of the document
\* gives the document again: same group order, field order, names and values.
C1_RoundTrip ==
    [][(Read /\ isfile(files, filename)
             /\ files[filename] = Serialized(namelists))
        => (err' = "none" /\ SameDocument(namelists', namelists))]_vars

\* C2: write, read, write again gives the same text both times: the document
\* read back from the written file serializes to that file's text.
C2_Idempotent ==
    [][(Read /\ isfile(files, filename)
             /\ files[filename] = Serialized(namelists))
        => Serialized(namelists') = files[filename]]_vars

\* C3: a write whose target exists, without overwrite permission, raises and
\* leaves the file system as it was.
C3_WriteConflict ==
    [][\A o \in Outputs, i \in Indents :
          (Write(o, FALSE, i) /\ isfile(files, Target(o)))
          => (err' # "none" /\ files' = files)]_vars

\* C4: a write with an indent that is not all white space raises and leaves
\* the file system as it was, whatever the document holds.
C4_IndentBeforeWrite ==
    [][\A o \in Outputs, ow \in BOOLEAN, i \in Indents :
          (Write(o, ow, i) /\ strip(i) # <<>>)
          => (err' # "none" /\ files' = files)]_vars

\* C5: a group-open line read while a group is open, and the end of the file
\* reached while a group is open, each make read raise.
C5_UnterminatedGroup ==
    [][(\/ /\ ReadLine
           /\ store_entry
           /\ ~skipped(Head(lines))
           /\ startswith(cleaned(Head(lines)), "&")
        \/ /\ ReadClose
           /\ store_entry)
       => err' # "none"]_vars

\* C6: a group-close line read while no group is open makes read raise.
C6_UnmatchedClose ==
    [][(/\ ReadLine
        /\ ~store_entry
        /\ ~skipped(Head(lines))
        /\ startswith(cleaned(Head(lines)), "/"))
       => err' # "none"]_vars

\* C7: a line inside an open group that is no marker and holds no "=" makes
\* read raise the structural error.
C7_MalformedFieldLine ==
    [][(/\ ReadLine
        /\ store_entry
        /\ ~skipped(Head(lines))
        /\ ~startswith(cleaned(Head(lines)), "&")
        /\ ~startswith(cleaned(Head(lines)), "/")
        /\ ~contains(cleaned(Head(lines)), "="))
       => err' = "StructuralError"]_vars

\* C8: a read that raises leaves the namelists as they were when it was
\* called.
C8_NoPartialDocument ==
    [][(Read /\ err' # "none") => namelists' = namelists]_vars

\* the variables of namelist k before and after a step
Before(k) == dict_get(namelists, k).variables
After(k) == dict_get(namelists', k).variables

\* the step is the call self.namelists[k].add_variable(v, modify)
IsAddVariable(k, v, modify) ==
    /\ call' = [op |-> "add_variable", k |-> k, variable |-> v, modify |-> modify]
    /\ AddVariable(k, v, modify)

\* C9 as stated: in replace mode, whatever position i holds the name, the
\* group keeps its length and names, position i holds the new field and the
\* other fields are unchanged; in append mode the new field goes last and the
\* earlier ones stay.
C9_AnyPosition ==
    [][\A k \in GroupNames, v \in Variables :
        /\ IsAddVariable(k, v, TRUE) =>
             \A i \in 1..Len(Before(k)) :
                Before(k)[i].name = v.name =>
                  /\ Len(After(k)) = Len(Before(k))
                  /\ names_of(After(k)) = names_of(Before(k))
                  /\ After(k)[i] = v
                  /\ \A j \in 1..Len(Before(k)) :
                        j # i => After(k)[j] = Before(k)[j]
        /\ IsAddVariable(k, v, FALSE) => After(k) = Before(k) \o <<v>>]_vars

\* C9, amended: the same, for the first position i that holds the name.
C9_ReplaceVsAppend ==
    [][\A k \in GroupNames, v \in Variables :
        /\ IsAddVariable(k, v, TRUE) =>
             \A i \in 1..Len(Before(k)) :
                (/\ Before(k)[i].name = v.name
                 /\ \A h \in 1..(i - 1) : Before(k)[h].name # v.name) =>
                  /\ Len(After(k)) = Len(Before(k))
                  /\ names_of(After(k)) = names_of(Before(k))
                  /\ After(k)[i] = v
                  /\ \A j \in 1..Len(Before(k)) :
                        j # i => After(k)[j] = Before(k)[j]
        /\ IsAddVariable(k, v, FALSE) => After(k) = Before(k) \o <<v>>]_vars

\* a replace-mode add_variable has just acted on a namelist that held the
\* name twice: the first entry is the new field, the second is the old one
C9_Witness ==
    /\ call.op = "add_variable"
    /\ call.modify
    /\ has_key(namelists, call.k)
    /\ LET vs == dict_get(namelists, call.k).variables
       IN  /\ Len(vs) = 2
           /\ vs[1] = call.variable
           /\ vs[2].name = call.variable.name
           /\ vs[2] # call.variable

\* C10: after Parse and replace-mode additions no two fields of a namelist
\* have the same name, and no two namelists of the document have the same
\* name.
C10_UniqueNames ==
    /\ \A g \in 1..Len(namelists) :
          LET vs == namelists[g].nml.variables
          IN  \A i, j \in 1..Len(vs) : i # j => vs[i].name # vs[j].name
    /\ \A g, h \in 1..Len(namelists) :
          g # h => namelists[g].nml.name # namelists[h].nml.name

\* read has met the name b twice in group g, and a replace-mode add_variable
\* of B has acted on the result: g holds one b, with the value just added
C10_Witness ==
    /\ pc = "idle"
    /\ call.op = "add_variable"
    /\ call.modify
    /\ files[filename] =
         <<"&", "g", "\n">>
         \o <<"B", "=", "X", ",", "2", " ", "!", "c", "\n">>
         \o <<"B", "=", "X", ",", "2", " ", "!", "c", "\n">>
    /\ namelists =
         <<[key |-> <<"g">>,
            nml |-> [name |-> <<"g">>,
                     variables |-> <<[name |-> <<"b">>,
                                      value |-> << <<"X">>, <<"2">> >>]>>]]>>

\* ------------------------------------------------- the offsets of a scan
\* the step sends one line through _parse_line
LineScanned ==
    /\ mpc = "base"
    /\ \/ inc_lines # <<>>
       \/ base_lines' # base_lines /\ ~is_include(base_lines'[Len(base_lines')])

\* that line, in lower case
TheLine ==
    IF inc_lines # <<>> THEN lower(Head(inc_lines))
    ELSE lower(base_lines'[Len(base_lines')])

\* the line is a declaration "... :: name = expr"
Declares(line) ==
    /\ ~ignored(line)
    /\ is_declaration(line)
    /\ Len(split_str(strip(line), <<":", ":">>)) >= 2
    /\ Len(decl_q(line)) = 2

DeclName(line) == strip(decl_q(line)[1])
DeclExpr(line) == strip(decl_q(line)[2])

\* the name is marked as an offset
Marked(n) == contains_str(n, off)

\* the expression is "o + k"; o is the offset it refers to
IsRelative(expr) == Len(split(expr, "+")) = 2 /\ is_int(strip(split(expr, "+")[2]))
Referred(expr) == strip(split(expr, "+")[1])

\* the expression is k, or o + k with o in the table
Resolvable(expr, table) ==
    is_int(expr) \/ (IsRelative(expr) /\ Referred(expr) \in DOMAIN table)

\* k, or table[o] + k
Resolved(expr, table) ==
    IF is_int(expr) THEN int(expr)
    ELSE table[Referred(expr)] + int(strip(split(expr, "+")[2]))

\* the step appends the triple of name n and code v
Yields(n, v) ==
    /\ merr' = "none"
    /\ Len(triples') = Len(triples) + 1
    /\ SubSeq(triples', 1, Len(triples)) = triples
    /\ triples'[Len(triples')].name = n
    /\ triples'[Len(triples')].code = v

Unresolvable(expr, table) == Marked(expr) /\ Referred(expr) \notin DOMAIN table

\* C12: a declaration that refers to an offset not defined on an earlier line
\* raises the error of the lookup and ends the build: no triple and no offset
\* is added for it, and whenever an error is raised the constructor is left
\* for good with no catalog
C12_UnresolvableReference ==
    [][/\ LineScanned /\ Declares(TheLine) /\ Unresolvable(DeclExpr(TheLine), offsets)
          => /\ merr' = "KeyError"
             /\ triples' = triples
             /\ offsets' = offsets
       /\ merr' # "none" => mpc' = "failed" /\ quantities' = <<>>
       /\ mpc = "failed" => mpc' = "failed"]_vars

\* qY = offB + 1 was scanned when only offA was defined, and the build ended
C12_Witness ==
    /\ base_lines = <<DefOffA, RefOffB>>
    /\ merr = "KeyError"
    /\ mpc = "failed"
    /\ quantities = <<>>
    /\ DOMAIN offsets = {<<"o", "f", "f", "a">>}

\* C13: an entry of OffsetTable never changes once it is recorded, and a line
\* that defines an offset already in the table is an error
C13_WriteOnce ==
    [][/\ \A n \in DOMAIN offsets : n \in DOMAIN offsets' /\ offsets'[n] = offsets[n]
       /\ LineScanned /\ Declares(TheLine) /\ Marked(DeclName(TheLine))
          /\ DeclName(TheLine) \in DOMAIN offsets
          => merr' # "none"]_vars

\* ---------------------------------------------------- the catalog's order
\* the codes of a list of quantities are in ascending order
Ascending(list) == \A i \in 1..(Len(list) - 1) : list[i].code <= list[i + 1].code

\* C14: the list of Quantity records the build exposes is sorted ascending
\* by code, whatever the order of the lines of the base and included files
C14_CatalogOrder ==
    /\ Ascending(quantities)
    /\ mpc \in {"files", "done"} => Len(quantities) = Len(triples)

\* a build has returned whose lines, one of them an include, gave their codes
\* out of order
C14_Witness ==
    /\ mpc = "done"
    /\ inc_file = codes_F
    /\ Len(quantities) >= 3
    /\ ~Ascending(triples)

\* ------------------------------------------------------- the diagnostic types
\* no two entries of the list have the same code
DistinctCodes(list) ==
    \A i, j \in 1..Len(list) : list[i].code = list[j].code => i = j

\* C15: after classification every category's list is sorted ascending by
\* code and holds no two entries of the same code
C15_SortedNoDuplicateCode ==
    mpc = "done" =>
        \A k \in DOMAIN diagnostic_types :
            Ascending(diagnostic_types[k]) /\ DistinctCodes(diagnostic_types[k])

\* the step scans one file whose name gives a diagnostic type
FileScanned == mpc = "files" /\ scanned' # scanned /\ contains(latest'.f, "_")

\* the names of a list of quantities, and the list of a type in a dict
NamesOf(list) == {list[i].name : i \in 1..Len(list)}
ListOf(types, k) == IF k \in DOMAIN types THEN types[k] ELSE <<>>

\* C16: a name of a scanned file that is no name of the catalog raises
\* nothing, adds no entry and does not stop the scan: after the file, the
\* list of its type holds what it held and the quantity of every name of the
\* file that is in the catalog, the other lists are as before, and the
\* scan goes on
C16_MissesNotFatal ==
    [][FileScanned
       => LET k == diag_type_of(latest'.f)
          IN  /\ merr' = "none"
              /\ mpc' = "files"
              /\ DOMAIN diagnostic_types' = DOMAIN diagnostic_types \cup {k}
              /\ NamesOf(diagnostic_types'[k])
                   = NamesOf(ListOf(diagnostic_types, k))
                     \cup (names_in(latest'.text) \cap NamesOf(quantities))
              /\ \A i \in 1..Len(diagnostic_types'[k]) :
                     \E j \in 1..Len(quantities) :
                        diagnostic_types'[k][i] = quantities[j]
              /\ \A x \in DOMAIN diagnostic_types \ {k} :
                     diagnostic_types'[x] = diagnostic_types[x]]_vars

\* a file was scanned whose first line calls an unknown name and whose second
\* line calls qx: qx is in the list of the file's type
C16_Witness ==
    /\ mpc = "files"
    /\ merr = "none"
    /\ latest.text = CallMiss \o CallX
    /\ <<"n", "o", "p", "e">> \in names_in(latest.text)
    /\ <<"n", "o", "p", "e">> \notin NamesOf(quantities)
    /\ NamesOf(diagnostic_types[diag_type_of(latest.f)]) = {<<"q", "x">>}

\* C17: when the classifier has returned, every key of diagnostic_types maps
\* to a list that is not empty
C17_NoEmptyCategory ==
    mpc = "done" => \A k \in DOMAIN diagnostic_types : diagnostic_types[k] # <<>>

\* the classifier has returned after the scan of a single file, which calls
\* only an unknown name, and its type is no key of the result
C17_Witness ==
    /\ mpc = "done"
    /\ Cardinality(scanned) = 1
    /\ latest.text = CallMiss
    /\ contains(latest.f, "_")
    /\ diag_type_of(latest.f) \notin DOMAIN diagnostic_types

\* ------------------------------------------------------------ the sanitizer
\* the number of "$" of the text is odd
OddDollars(text) == count(text, "$") % 2 = 1

\* C18: a comment whose text after :tex: has an odd number of "$" gets
\* exactly one "$" appended before the special characters are repaired: the
\* value returned ends with "$" and has an even number of "$", and nothing is
\* raised; with an even number of "$" no "$" is appended
C18_OddDollarRepair ==
    mpc = "done" =>
        LET text == tex_entry(texline)
        IN  /\ merr = "none"
            /\ count(entry, "$") % 2 = 0
            /\ OddDollars(text)
                  => /\ entry = fix_special_characters(Append(text, "$"))
                     /\ endswith(entry, "$")
            /\ ~OddDollars(text) => entry = fix_special_characters(text)

\* the comment "d:tex:x$x" has been repaired to "x$x$"
C18_Witness ==
    /\ mpc = "done"
    /\ texline = <<"d">> \o tex_sep \o <<"x", "$", "x">>
    /\ entry = <<"x", "$", "x", "$">>

\* the text before the first "$", from the first to the last "$", and after
\* the last "$"; a text with no "$" is all before
BeforeMath(text) == IF contains(text, "$") THEN SubSeq(text, 1, find(text, "$")) ELSE text
MathBody(text) ==
    IF contains(text, "$") THEN SubSeq(text, find(text, "$") + 1, rfind(text, "$") + 1)
    ELSE <<>>
AfterMath(text) ==
    IF contains(text, "$") THEN SubSeq(text, rfind(text, "$") + 2, Len(text)) ELSE <<>>

\* C19: with text the comment's text after :tex:, its missing "$" appended: a
\* text that starts and ends with "$" is returned unchanged; of any other
\* text the part from the first to the last "$" is returned unchanged, and
\* the parts before and after it are returned with their special characters
\* escaped
C19_MathBodyUntouched ==
    mpc = "done" =>
        LET text == add_missing_dollar(tex_entry(texline))
        IN  IF startswith(text, "$") /\ endswith(text, "$")
            THEN entry = text
            ELSE entry = detexify(BeforeMath(text)) \o MathBody(text)
                         \o detexify(AfterMath(text))

\* ------------------------------------------------------------- the includes
RECURSIVE Substituted(_, _)
\* the lines of the base file, every include line replaced by the lines of
\* the file it names
Substituted(base, d) ==
    IF base = <<>> THEN <<>>
    ELSE (IF is_include(Head(base))
          THEN readlines(d[included_name(None, Head(base))])
          ELSE <<Head(base)>>) \o Substituted(Tail(base), d)

\* C20: the catalog a build exposes is the catalog of the base file with
\* every include line replaced by the lines of the included file
C20_IncludeIsSubstitution ==
    mpc \in {"files", "done"} =>
        quantities = parse_basefile(Substituted(base_lines, dir), dir).quantities

\* C21: an include line that names a missing file, and an include line read
\* in an included file, each raise and end the build
C21_IncludeFailuresLoud ==
    [][/\ mpc = "base" /\ base_lines' # base_lines
          /\ is_include(base_lines'[Len(base_lines')])
          /\ dir[included_name(inc_file, base_lines'[Len(base_lines')])] = NoFile
          => merr' # "none" /\ mpc' = "failed"
       /\ mpc = "base" /\ inc_lines # <<>> /\ is_include(Head(inc_lines))
          => merr' # "none" /\ mpc' = "failed"]_vars

\* ------------------------------------------------- C22
\* the loop of read is about to read a line
Reading == pc = "read" /\ lines # <<>>

\* the lines of the file being read, and the line the last pass decoded
FileLines == readlines(files[filename])
Decoded == Len(FileLines) - Len(lines)
LastLine == FileLines[Decoded]
HasDecoded == pc = "read" /\ isfile(files, filename) /\ Decoded >= 1

\* only white space, or "!" as the first character that is not white space
BlankLine(Line) == \A i \in 1..Len(Line) : IsSpace(Line[i])
CommentLine(Line) ==
    \E i \in 1..Len(Line) :
        Line[i] = "!" /\ \A j \in 1..(i - 1) : IsSpace(Line[j])

\* C22: a blank line and a comment line change neither the document nor the
\* open flag and the current group name, inside a group and outside
C22_BlankAndCommentSkipped ==
    [][Reading /\ (BlankLine(Head(lines)) \/ CommentLine(Head(lines)))
         => /\ namelists' = namelists
            /\ store_entry' = store_entry
            /\ name' = name
            /\ err' = "none"
            /\ pc' = "read"]_vars

\* a comment line has just been passed inside a group that holds a variable
C22_Witness ==
    /\ HasDecoded
    /\ CommentLine(LastLine)
    /\ store_entry
    /\ \E i \in 1..Len(namelists) : namelists[i].nml.variables # <<>>

\* ------------------------------------------------- C23
\* the character at i lies inside a quoted string literal of the line
InQuotes(Line, i) == Cardinality({j \in 1..(i - 1) : Line[j] = "'"}) % 2 = 1

\* the places of the comment markers outside quoted string literals
Markers(Line) == {i \in 1..Len(Line) : Line[i] = "!" /\ ~InQuotes(Line, i)}

\* the line without its trailing comment
Uncommented(Line) ==
    IF Markers(Line) = {} THEN Line
    ELSE prefix(Line, (CHOOSE i \in Markers(Line) : \A j \in Markers(Line) : i <= j) - 1)

\* a line that is neither blank, comment, group-open nor group-close and has "="
FieldLine(Line) ==
    /\ lstrip(Line) # <<>>
    /\ lstrip(Line)[1] \notin {"!", "&", "/"}
    /\ contains(Uncommented(Line), "=")

\* the variables of the group the reader is in, after the pass
GroupAfter == dict_get(namelists', name).variables

\* C23: on a field line a "!" inside a quoted value stays in the value, which
\* is not cut at it
C23_QuoteAwareComments ==
    [][/\ Reading /\ store_entry /\ FieldLine(Head(lines))
       /\ \E i \in 1..Len(Head(lines)) :
             Head(lines)[i] = "!" /\ InQuotes(Head(lines), i)
       => LET text == lower(Uncommented(Head(lines)))
              right == strip(suffix(text, find(text, "=") + 1))
          IN  /\ err' = "none"
              /\ ~contains(right, ",")
                   => \E i \in 1..Len(GroupAfter) : GroupAfter[i].value = <<right>>]_vars

\* ------------------------------------------------- C24
\* the k-th smallest element of a set of numbers
Kth(S, k) == CHOOSE i \in S : Cardinality({j \in S : j < i}) = k - 1

\* the places of c in s, and the text between the k-th and the one before it
Places(s, c) == {i \in 1..Len(s) : s[i] = c}
Between(s, c, k) ==
    LET n == Cardinality(Places(s, c))
        from == IF k = 1 THEN 0 ELSE Kth(Places(s, c), k - 1)
        to == IF k = n + 1 THEN Len(s) + 1 ELSE Kth(Places(s, c), k)
    IN  SubSeq(s, from + 1, to - 1)

\* the two sides of the first "=" of a line
LeftSide(text) == SubSeq(text, 1, Kth(Places(text, "="), 1) - 1)
RightSide(text) == SubSeq(text, Kth(Places(text, "="), 1) + 1, Len(text))

\* the value sequence a trimmed right side stands for
Elements(right) ==
    IF Places(right, ",") = {} THEN <<right>>
    ELSE [k \in 1..(Cardinality(Places(right, ",")) + 1) |->
            strip(Between(right, ",", k))]

\* the line read is a field line with "=", read inside a group
FieldRead ==
    /\ Reading /\ store_entry /\ ~skipped(Head(lines))
    /\ ~startswith(cleaned(Head(lines)), "&")
    /\ ~startswith(cleaned(Head(lines)), "/")
    /\ contains(cleaned(Head(lines)), "=")

\* C24: a field line inside a group is split on its first "="; the left side
\* trimmed is the name, the trimmed right side is one element when it has no
\* ",", and else its pieces between the "," trimmed and in order
C24_FieldLineDecoding ==
    [][FieldRead
       => /\ err' = "none"
          /\ \E i \in 1..Len(GroupAfter) :
               /\ GroupAfter[i].name = strip(LeftSide(cleaned(Head(lines))))
               /\ GroupAfter[i].value =
                     Elements(strip(RightSide(cleaned(Head(lines)))))]_vars

\* a line with two "=" and a line with "," have been decoded
C24_Witness ==
    /\ pc = "read" /\ lines = <<>>
    /\ \E g \in 1..Len(namelists), i, j \in 1..2 :
         /\ Len(namelists[g].nml.variables) = 2
         /\ namelists[g].nml.variables[i] =
               [name |-> <<"a">>, value |-> << <<"b", "=", "1">> >>]
         /\ namelists[g].nml.variables[j] =
               [name |-> <<"b">>, value |-> << <<"x">>, <<"2">> >>]

\* ------------------------------------------------- C25
\* a name that is lower-case, not empty and has no white space around it
WellNamed(n) == n = lower(n) /\ n # <<>> /\ strip(n) = n

\* C25: every variable the document holds has a well-formed name and a value
\* sequence that is not empty
C25_FieldWellFormed ==
    \A g \in 1..Len(namelists) :
      \A i \in 1..Len(namelists[g].nml.variables) :
         /\ WellNamed(namelists[g].nml.variables[i].name)
         /\ namelists[g].nml.variables[i].value # <<>>

\* ------------------------------------------------- C26
\* C26: the flag of read is set exactly when the current group name is, and
\* then the name is a key of the document's groups
C26_ParserState ==
    /\ store_entry <=> name # None
    /\ store_entry => has_key(namelists, name)

\* a field line has just been put into the group that is open
C26_Witness ==
    /\ HasDecoded
    /\ store_entry
    /\ ~skipped(LastLine)
    /\ contains(cleaned(LastLine), "=")
    /\ dict_get(namelists, name).variables # <<>>

\* ------------------------------------------------- C27
\* a line that is neither blank, comment, group-open nor group-close
PlainLine(Line) ==
    /\ ~BlankLine(Line)
    /\ ~CommentLine(Line)
    /\ lstrip(Line)[1] \notin {"&", "/"}

\* C27: a plain line read while no group is open raises nothing and leaves the
\* document and the state of read as they are, with "=" and without
C27_OutsideGroupIgnored ==
    [][Reading /\ ~store_entry /\ PlainLine(Head(lines))
         => /\ namelists' = namelists
            /\ store_entry' = store_entry
            /\ name' = name
            /\ err' = "none"
            /\ pc' = "read"]_vars

\* a plain line without "=" has just been passed after a group was closed
C27_Witness ==
    /\ HasDecoded
    /\ ~store_entry
    /\ PlainLine(LastLine)
    /\ ~contains(LastLine, "=")
    /\ err = "none"
    /\ namelists # <<>>

\* ------------------------------------------------- C28
\* the name a group-open line gives
Header(Line) == strip(suffix(cleaned(Line), 1))
IsHeader(Line) == ~BlankLine(Line) /\ lstrip(Line)[1] = "&"

\* C28: a group-open line whose name is already a group of the document puts a
\* new empty group in its place, at the same position, and makes it the
\* current one
C28_RepeatedHeader ==
    [][Reading /\ IsHeader(Head(lines)) /\ has_key(namelists, Header(Head(lines)))
         => /\ err' = "none"
            /\ Len(namelists') = Len(namelists)
            /\ \A g \in 1..Len(namelists) :
                 IF namelists[g].key = Header(Head(lines))
                 THEN namelists'[g] =
                        [key |-> Header(Head(lines)),
                         nml |-> [name |-> Header(Head(lines)), variables |-> <<>>]]
                 ELSE namelists'[g] = namelists[g]
            /\ store_entry'
            /\ name' = Header(Head(lines))]_vars

\* a header, a field line and the same header again have been read: the group
\* holds nothing
C28_Witness ==
    /\ HasDecoded
    /\ Decoded = 3
    /\ IsHeader(FileLines[1])
    /\ PlainLine(FileLines[2]) /\ contains(FileLines[2], "=")
    /\ IsHeader(FileLines[3])
    /\ Header(FileLines[3]) = Header(FileLines[1])
    /\ name = Header(FileLines[3])
    /\ dict_get(namelists, name).variables = <<>>

\* ------------------------------------------------- C29
\* the document holds what read alone has stored
OnlyRead == call.op = "read"

\* C29: every group name, variable name and element of a value that read has
\* stored is lower-case
C29_ReadLowerCases ==
    OnlyRead =>
      \A g \in 1..Len(namelists) :
        /\ namelists[g].key = lower(namelists[g].key)
        /\ namelists[g].nml.name = lower(namelists[g].nml.name)
        /\ \A i \in 1..Len(namelists[g].nml.variables) :
             LET var == namelists[g].nml.variables[i]
             IN  /\ var.name = lower(var.name)
                 /\ \A k \in 1..Len(var.value) : var.value[k] = lower(var.value[k])

\* read has returned from a file whose header, variable name and value are
\* written in upper case
C29_Witness ==
    /\ OnlyRead /\ pc = "idle" /\ err = "none"
    /\ Len(FileLines) >= 2
    /\ FileLines[1] = <<"&", "H", "\n">>
    /\ FileLines[2] = <<"B", "=", "X", ",", "2", " ", "!", "c", "\n">>
    /\ namelists = << [key |-> <<"h">>,
                       nml |-> [name |-> <<"h">>,
                                variables |-> << [name |-> <<"b">>,
                                                  value |-> << <<"x">>, <<"2">> >>] >>]] >>

\* ------------------------------------------------- C30
\* C30: of a comment whose text after :tex: holds no "$", the value returned
\* is the text with its special characters escaped, once
C30_NoDollarEscapedOnce ==
    mpc = "done" /\ ~contains(tex_entry(texline), "$")
        => merr = "none" /\ entry = detexify(tex_entry(texline))
====
